---- MODULE Spec2Model ----
(***************************************************************************)
(* Model of flame_components_arcgisRaster.py: the six flame-component      *)
(* functions (getMidFlameWS, getFlameLength, getFlameHeight, getFlameTilt, *)
(* getFlameResidenceTime, getFlameDepth) and the caller's grids they are   *)
(* handed.                                                                 *)
(*                                                                         *)
(* Numbers.  The code computes over reals.  A number is kept exactly as a  *)
(* rational <<n, d>> (d > 0, lowest terms) wherever the code's arithmetic  *)
(* stays rational.  Conversion factors that are applied repeatedly         *)
(* (3.28084, 3.6*1.15, 2.23694) are kept as exponents of the factor, and   *)
(* powers, logarithms and square roots as the expression the code builds,  *)
(* so that two results are equal in the model exactly when the code        *)
(* computes the same real.  For the trigonometric code a number is either  *)
(* exact (q * pi^p) or, where the exact value is irrational, the set of    *)
(* signs it can have.                                                      *)
(***************************************************************************)
EXTENDS Integers, Sequences, FiniteSets, TLC

(***************************************************************************)
(* Bounds of the model.                                                    *)
(***************************************************************************)
\* cells in a grid
NCells == 3
\* calls in one behaviour
MaxCalls == 2

\* Python's None, for an absent string argument and for an absent grid argument
None == "None"
NoGrid == <<>>

(***************************************************************************)
(* Exact rationals.                                                        *)
(***************************************************************************)
AbsInt(a) == IF a < 0 THEN -a ELSE a

RECURSIVE GCD(_, _)
GCD(a, b) == IF b = 0 THEN a ELSE GCD(b, a % b)

R(n, d) ==
    LET s == IF d < 0 THEN -1 ELSE 1
        g == GCD(AbsInt(n), AbsInt(d))
    IN  <<(s * n) \div g, (s * d) \div g>>

RInt(n) == <<n, 1>>
RAdd(x, y) == R(x[1] * y[2] + y[1] * x[2], x[2] * y[2])
RSub(x, y) == R(x[1] * y[2] - y[1] * x[2], x[2] * y[2])
RMul(x, y) == R(x[1] * y[1], x[2] * y[2])
\* y # 0
RDiv(x, y) == R(x[1] * y[2], x[2] * y[1])
RLt(x, y) == x[1] * y[2] < y[1] * x[2]
RLe(x, y) == x[1] * y[2] <= y[1] * x[2]
RIsZero(x) == x[1] = 0
RSgn(x) == IF x[1] < 0 THEN "neg" ELSE IF x[1] = 0 THEN "zero" ELSE "pos"

(***************************************************************************)
(* Grids.  A grid is a sequence of NCells cells; Grid(o, vals) is the grid *)
(* whose cells run through vals starting at offset o.                      *)
(***************************************************************************)
Cells == 1..NCells
Grid(o, vals) == [i \in Cells |-> vals[((i - 1 + o) % Len(vals)) + 1]]
Grids(vals) == {Grid(o, vals) : o \in 0..(Len(vals) - 1)}

\* a numeric result the arithmetic leaves undefined (x/0, Ln(x <= 0), ...)
Undef == "Undef"

(***************************************************************************)
(* getMidFlameWS (lines 23-64).                                            *)
(* A wind-speed cell is q / (3.6*1.15)^si / 2.23694^imp, a height cell is  *)
(* q * 3.28084^ft; zero is kept with all exponents 0.                      *)
(***************************************************************************)
VARIABLES windspeed, canopy_cover, canopy_ht, canopy_baseht, orig, inplace,
          call, ret, ncalls

vars == <<windspeed, canopy_cover, canopy_ht, canopy_baseht, orig, inplace,
          call, ret, ncalls>>

Ws(q) == [q |-> q, si |-> 0, imp |-> 0]
Ht(q) == [q |-> q, ft |-> 0]

\* line 48: windspeed /= (3.6 * 1.15)
DivSI(w) == IF RIsZero(w.q) THEN w ELSE [w EXCEPT !.si = @ + 1]
\* line 52: windspeed /= 2.23694
DivIMP(w) == IF RIsZero(w.q) THEN w ELSE [w EXCEPT !.imp = @ + 1]
\* lines 49-50: canopy_ht *= 3.28084, canopy_baseht *= 3.28084
MulFt(h) == IF RIsZero(h.q) THEN h ELSE [h EXCEPT !.ft = @ + 1]

\* lines 47-52: the values the names windspeed, canopy_ht and canopy_baseht
\* hold after the unit conversion
ConvertUnits(units, ws, ch, cbh) ==
    IF units = "SI"
    THEN [ws  |-> [i \in DOMAIN ws |-> DivSI(ws[i])],
          ch  |-> [i \in DOMAIN ch |-> MulFt(ch[i])],
          cbh |-> [i \in DOMAIN cbh |-> MulFt(cbh[i])]]
    ELSE IF units = "IMP"
    THEN [ws |-> [i \in DOMAIN ws |-> DivIMP(ws[i])], ch |-> ch, cbh |-> cbh]
    ELSE [ws |-> ws, ch |-> ch, cbh |-> cbh]

\* the elementwise Con(cond, a, b) of arcpy.sa: both operand grids are
\* evaluated by the caller, Con selects per cell
Con(cond, a, b) == [i \in DOMAIN cond |-> IF cond[i] THEN a[i] ELSE b[i]]

\* two heights are commensurable when they carry the same power of 3.28084
SameFt(h, b) == h.ft = b.ft \/ RIsZero(h.q) \/ RIsZero(b.q)

\* line 55, third operand: (canopy_ht - canopy_baseht) / canopy_ht
CrownRatioExpr(h, b) ==
    IF RIsZero(h.q) THEN Undef
    ELSE IF ~SameFt(h, b) THEN "Unrepresentable"
    ELSE RDiv(RSub(h.q, b.q), h.q)

\* line 59: canopy_ht = Con(canopy_ht == 0, 0.5 * 3.28084, canopy_ht)
SubstituteHt(ch) ==
    Con([i \in DOMAIN ch |-> RIsZero(ch[i].q)],
        [i \in DOMAIN ch |-> [q |-> R(1, 2), ft |-> 1]],
        ch)

\* a crown ratio computed after the substitution of line 59
CrownRatioAfterSubst(ch, cbh) ==
    [i \in DOMAIN ch |-> CrownRatioExpr(SubstituteHt(ch)[i], cbh[i])]

\* line 55: crown_ratio = Con(canopy_ht == 0, 0, (canopy_ht - canopy_baseht) / canopy_ht)
CrownRatio(ch, cbh) ==
    Con([i \in DOMAIN ch |-> RIsZero(ch[i].q)],
        [i \in DOMAIN ch |-> RInt(0)],
        [i \in DOMAIN ch |-> CrownRatioExpr(ch[i], cbh[i])])

\* line 56: f = crown_ratio * canopy_cover / 300
FExpr(cr, cc) == RDiv(RMul(cr, cc), RInt(300))

\* line 62: windspeed * 1.83 / Ln((20 + (0.36 * canopy_ht)) / (0.13 * canopy_ht))
OpenExpr(w, h) ==
    IF RIsZero(h.q) THEN Undef
    ELSE [coef |-> R(183, 100), ws |-> w, lnof |-> h, sqrtof |-> None]

\* line 63: windspeed * 0.555 / (SquareRoot(f * canopy_ht) * Ln(...))
CanopyExpr(w, f, h) ==
    IF RIsZero(h.q) \/ ~RLt(RInt(0), f) THEN Undef
    ELSE [coef |-> R(555, 1000), ws |-> w, lnof |-> h, sqrtof |-> <<f, h>>]

\* the divisions of lines 55, 62 and 63 whose divisor is 0 in a cell with
\* (converted) height h, substituted height hs and crown-ratio product f
ZeroDivisors(h, hs, f) ==
    (IF RIsZero(h.q) THEN {55} ELSE {})
    \cup (IF RIsZero(hs.q) THEN {62, 63} ELSE {})
    \cup (IF RIsZero(f) THEN {63} ELSE {})

\* lines 47-64, as a function of the values the arguments hold at the call
MidFlameWS(ws0, cc, ch0, cbh0, units) ==
    LET c   == ConvertUnits(units, ws0, ch0, cbh0)
        cr  == CrownRatio(c.ch, c.cbh)
        f   == [i \in Cells |-> FExpr(cr[i], cc[i])]
        hs  == SubstituteHt(c.ch)
        sel == [i \in Cells |-> RLe(f[i], RInt(5))]
    IN  [kind |-> "value",
         val  |-> Con(sel,
                      [i \in Cells |-> OpenExpr(c.ws[i], hs[i])],
                      [i \in Cells |-> CanopyExpr(c.ws[i], f[i], hs[i])]),
         aux  |-> [crown_ratio |-> cr, f |-> f, canopy_ht |-> hs,
                   line |-> [i \in Cells |-> IF sel[i] THEN 62 ELSE 63],
                   zerodiv |-> [i \in Cells |->
                                  ZeroDivisors(c.ch[i], hs[i], f[i])]]]

\* whether the grid type's augmented assignment changes the caller's object
AugAssignMutates(ip) == ip

getMidFlameWS(units) ==
    /\ ncalls < MaxCalls
    /\ call' = [fn |-> "getMidFlameWS", units |-> units,
                windspeed |-> windspeed, canopy_cover |-> canopy_cover,
                canopy_ht |-> canopy_ht, canopy_baseht |-> canopy_baseht]
    /\ ret' = MidFlameWS(windspeed, canopy_cover, canopy_ht, canopy_baseht, units)
    /\ LET c == ConvertUnits(units, windspeed, canopy_ht, canopy_baseht)
       IN  IF AugAssignMutates(inplace)
           THEN /\ windspeed' = c.ws
                /\ canopy_ht' = c.ch
                /\ canopy_baseht' = c.cbh
           ELSE UNCHANGED <<windspeed, canopy_ht, canopy_baseht>>
    /\ ncalls' = ncalls + 1
    /\ UNCHANGED <<canopy_cover, orig, inplace>>

(***************************************************************************)
(* Numbers of the trigonometric code (getFlameHeight "Finney",             *)
(* getFlameTilt).  X(q, p) is exactly q * pi^p.  S(s) is a number known    *)
(* only by the outcomes in s: "neg", "zero", "pos" for its sign, "undef"   *)
(* for no value (x/0, Ln or SquareRoot or ASin outside the domain).  Every *)
(* operation is exact where the result is rational (times a power of pi)   *)
(* and otherwise returns every outcome the real result can have.           *)
(***************************************************************************)
X(q, p) == [t |-> "x", q |-> q, p |-> IF RIsZero(q) THEN 0 ELSE p]
S(s) == [t |-> "s", s |-> s]
NInt(n) == X(RInt(n), 0)
PI == X(RInt(1), 1)
AnySign == {"neg", "zero", "pos"}

Signs(v) == IF v.t = "x" THEN {RSgn(v.q)} ELSE v.s

NegSign(a) == CASE a = "neg" -> "pos" [] a = "pos" -> "neg" [] OTHER -> a

MulSign(a, b) ==
    IF a = "undef" \/ b = "undef" THEN "undef"
    ELSE IF a = "zero" \/ b = "zero" THEN "zero"
    ELSE IF a = b THEN "pos" ELSE "neg"

DivSign(a, b) ==
    IF a = "undef" \/ b = "undef" \/ b = "zero" THEN "undef"
    ELSE MulSign(a, b)

AddSigns(a, b) ==
    IF a = "undef" \/ b = "undef" THEN {"undef"}
    ELSE IF a = "zero" THEN {b}
    ELSE IF b = "zero" \/ a = b THEN {a}
    ELSE AnySign

NNeg(a) == IF a.t = "x" THEN X(RSub(RInt(0), a.q), a.p)
           ELSE S({NegSign(x) : x \in a.s})

NMul(a, b) ==
    IF a.t = "x" /\ b.t = "x" THEN X(RMul(a.q, b.q), a.p + b.p)
    ELSE S({MulSign(x, y) : x \in Signs(a), y \in Signs(b)})

NDiv(a, b) ==
    IF a.t = "x" /\ b.t = "x" /\ ~RIsZero(b.q)
    THEN X(RDiv(a.q, b.q), a.p - b.p)
    ELSE S({DivSign(x, y) : x \in Signs(a), y \in Signs(b)})

NAdd(a, b) ==
    IF a.t = "x" /\ b.t = "x" /\ (a.p = b.p \/ RIsZero(a.q) \/ RIsZero(b.q))
    THEN X(RAdd(a.q, b.q), IF RIsZero(a.q) THEN b.p ELSE a.p)
    ELSE S(UNION {AddSigns(x, y) : x \in Signs(a), y \in Signs(b)})

NSub(a, b) == NAdd(a, NNeg(b))

\* q - 2*floor(q/2): the angle q*pi reduced to [0, 2*pi)
Mod2(q) == RSub(q, RInt(2 * (q[1] \div (2 * q[2]))))

\* sin(q*pi), q in [0, 2)
SinTable(q) ==
    CASE q = R(0, 1) \/ q = R(1, 1) -> NInt(0)
      [] q = R(1, 6) \/ q = R(5, 6) -> X(R(1, 2), 0)
      [] q = R(1, 2) -> NInt(1)
      [] q = R(7, 6) \/ q = R(11, 6) -> X(R(-1, 2), 0)
      [] q = R(3, 2) -> NInt(-1)
      [] OTHER -> IF RLt(q, RInt(1)) THEN S({"pos"}) ELSE S({"neg"})

Sin(a) ==
    IF a.t = "x" /\ (a.p = 1 \/ RIsZero(a.q)) THEN SinTable(Mod2(a.q))
    ELSE IF a.t = "x" THEN S(AnySign)
    ELSE S(UNION {IF x = "undef" THEN {"undef"}
                  ELSE IF x = "zero" THEN {"zero"} ELSE AnySign : x \in a.s})

ASin(a) ==
    IF a.t = "x" /\ a.p = 0
    THEN CASE a.q = R(0, 1) -> NInt(0)
           [] a.q = R(1, 2) -> X(R(1, 6), 1)
           [] a.q = R(-1, 2) -> X(R(-1, 6), 1)
           [] a.q = R(1, 1) -> X(R(1, 2), 1)
           [] a.q = R(-1, 1) -> X(R(-1, 2), 1)
           [] OTHER -> IF RLt(RInt(1), a.q) \/ RLt(a.q, RInt(-1))
                       THEN S({"undef"}) ELSE S({RSgn(a.q)})
    ELSE S(UNION {IF x = "zero" THEN {"zero"} ELSE {x, "undef"} : x \in Signs(a)})

ACos(a) ==
    IF a.t = "x" /\ a.p = 0
    THEN CASE a.q = R(1, 1) -> NInt(0)
           [] a.q = R(1, 2) -> X(R(1, 3), 1)
           [] a.q = R(0, 1) -> X(R(1, 2), 1)
           [] a.q = R(-1, 2) -> X(R(2, 3), 1)
           [] a.q = R(-1, 1) -> X(R(1, 1), 1)
           [] OTHER -> IF RLt(RInt(1), a.q) \/ RLt(a.q, RInt(-1))
                       THEN S({"undef"}) ELSE S({"pos"})
    ELSE S(UNION {CASE x = "undef" -> {"undef"}
                    [] x = "zero" -> {"pos"}
                    [] x = "pos" -> {"zero", "pos", "undef"}
                    [] OTHER -> {"pos", "undef"} : x \in Signs(a)})

ATan(a) ==
    IF a.t = "x" /\ a.p = 0
    THEN CASE a.q = R(0, 1) -> NInt(0)
           [] a.q = R(1, 1) -> X(R(1, 4), 1)
           [] a.q = R(-1, 1) -> X(R(-1, 4), 1)
           [] OTHER -> S({RSgn(a.q)})
    ELSE S(Signs(a))

SquareRoot(a) ==
    IF a.t = "x" /\ a.p = 0 /\ (a.q = R(0, 1) \/ a.q = R(1, 1)) THEN a
    ELSE S({IF x = "neg" THEN "undef" ELSE x : x \in Signs(a)})

Ln(a) ==
    IF a.t = "x" /\ a.p = 0
    THEN IF a.q = R(1, 1) THEN NInt(0)
         ELSE IF ~RLt(RInt(0), a.q) THEN S({"undef"})
         ELSE IF RLt(RInt(1), a.q) THEN S({"pos"}) ELSE S({"neg"})
    ELSE S(UNION {IF x = "pos" THEN AnySign ELSE {"undef"} : x \in Signs(a)})

\* line 15
getDegrees(in_data) == NDiv(NMul(in_data, NInt(180)), PI)
\* line 19
getRadians(in_data) == NDiv(NMul(in_data, PI), NInt(180))

\* the outcomes of the comparisons a >= 0 and a <= 1 in a cell
Ge0(a) == {CASE x \in {"zero", "pos"} -> "T" [] x = "neg" -> "F" [] OTHER -> "U"
           : x \in Signs(a)}
Le1(a) ==
    IF a.t = "x" /\ a.p = 0 THEN {IF RLe(a.q, RInt(1)) THEN "T" ELSE "F"}
    ELSE UNION {CASE x \in {"zero", "neg"} -> {"T"} [] x = "pos" -> {"T", "F"}
                  [] OTHER -> {"U"} : x \in Signs(a)}

\* Con(cond, a, b) in one cell whose condition has the outcomes c; a cell
\* whose condition has no value holds no value or the false operand
ConCell(c, a, b) ==
    IF c = {"T"} THEN a
    ELSE IF c = {"F"} THEN b
    ELSE S(UNION {CASE x = "T" -> Signs(a) [] x = "F" -> Signs(b)
                    [] OTHER -> Signs(b) \cup {"undef"} : x \in c})

(***************************************************************************)
(* Outcomes of a call: a returned value, an exception raised by one of the *)
(* module's raise statements (all are Exception(msg)), or an exception     *)
(* raised inside the grid library by an operation on an absent (None)      *)
(* operand or by the truth value of a grid.                                *)
(***************************************************************************)
Raise(msg) == [kind |-> "raise", exc |-> "Exception", msg |-> msg]
LibraryError(line) == [kind |-> "raise", exc |-> "LibraryError", line |-> line]
Value(v, aux) == [kind |-> "value", val |-> v, aux |-> aux]

(***************************************************************************)
(* getFlameLength (lines 68-133).                                          *)
(***************************************************************************)
\* lines 84-117
model_dict ==
    [
        Fons_NOWIND |-> <<R(24018, 1000000), R(2, 3)>>,
        Thomas_NOWIND |-> <<R(26700, 1000000), R(2, 3)>>,
        Yuana_NOWIND |-> <<R(34000, 1000000), R(2, 3)>>,
        Barbon_iNOWIND |-> <<R(62000, 1000000), R(5336, 10000)>>,
        Nelson_BACK |-> <<R(27973, 1000000), R(2, 3)>>,
        Fernandes_BACK |-> <<R(29000, 1000000), R(7240, 10000)>>,
        Clark_BACK |-> <<R(1600, 1000000), R(17450, 10000)>>,
        Vega_BACK |-> <<R(87000, 1000000), R(4930, 10000)>>,
        Byram_HEAD |-> <<R(775, 10000), R(4600, 10000)>>,
        Anderson1_HEAD |-> <<R(13876, 1000000), R(6510, 10000)>>,
        Anderson2_HEAD |-> <<R(8800, 1000000), R(6700, 10000)>>,
        Newman_HEAD |-> <<R(5770, 100000), R(5000, 10000)>>,
        Sneewujagt_HEAD |-> <<R(37680, 1000000), R(5000, 10000)>>,
        Nelson1_HEAD |-> <<R(44230, 1000000), R(5000, 10000)>>,
        Clark_HEAD |-> <<R(722, 1000000), R(9934, 10000)>>,
        Nelson2_HEAD |-> <<R(47500, 1000000), R(4930, 10000)>>,
        VanWilgen_HEAD |-> <<R(46000, 1000000), R(4128, 10000)>>,
        Burrows_HEAD |-> <<R(40480, 1000000), R(5740, 10000)>>,
        MarsdenSmedley_HEAD |-> <<R(148, 1000), R(403, 1000)>>,
        Weise1_HEAD |-> <<R(16000, 1000000), R(7000, 10000)>>,
        Catchpole_HEAD |-> <<R(32500, 1000000), R(5600, 10000)>>,
        Fernandes1_HEAD |-> <<R(51600, 1000000), R(4530, 10000)>>,
        Butler_HEAD |-> <<R(17500, 1000000), R(2, 3)>>,
        Fernandes_HEAD |-> <<R(45000, 1000000), R(5430, 10000)>>,
        Nelson3_HEAD |-> <<R(14200, 1000000), R(2, 3)>>,
        Nelson4_HEAD |-> <<R(15500, 1000000), R(2, 3)>>,
        Weise2_HEAD |-> <<R(2000000, 10000000), R(3400, 10000)>>,
        Davies_HEAD |-> <<R(220000, 1000000), R(2900, 10000)>>,
        Finney_HEAD |-> <<R(1051, 100000), R(774, 1000), R(161, 1000)>>
    ]

\* line 123
MsgLengthModel == "Unable to calculate flame length - Model choice is invalid"

\* line 133: model_params[0] * Power(fire_intensity, model_params[1])
PowerLaw(pr, fi) == [a |-> pr[1], base |-> fi, b |-> pr[2]]

\* lines 129-131: model_params[0] * Power(fire_intensity, model_params[1])
\*                / Power(flame_depth, model_params[2])
DepthPowerLaw(pr, fi, fd) ==
    [a |-> pr[1], base |-> fi, b |-> pr[2], depth |-> fd, c |-> pr[3]]

\* params_only answered before the lookup is checked
FlameLengthParamsFirst(model, fire_intensity, flame_depth, params_only) ==
    IF params_only
    THEN Value(IF model \in DOMAIN model_dict THEN model_dict[model] ELSE <<>>,
               [line |-> 126])
    ELSE IF model \notin DOMAIN model_dict THEN Raise(MsgLengthModel)
    ELSE Value([i \in DOMAIN fire_intensity |->
                  PowerLaw(model_dict[model], fire_intensity[i])],
               [line |-> 133])

\* params_only answered with the two power-law coefficients only
FlameLengthTwoParams(model, fire_intensity, flame_depth, params_only) ==
    IF model \notin DOMAIN model_dict THEN Raise(MsgLengthModel)
    ELSE IF params_only
    THEN Value(<<model_dict[model][1], model_dict[model][2]>>, [line |-> 126])
    ELSE Value([i \in DOMAIN fire_intensity |->
                  PowerLaw(model_dict[model], fire_intensity[i])],
               [line |-> 133])

\* lines 119-133
FlameLength(model, fire_intensity, flame_depth, params_only) ==
    IF model \notin DOMAIN model_dict THEN Raise(MsgLengthModel)
    ELSE LET model_params == model_dict[model] IN
         IF params_only THEN Value(model_params, [line |-> 126])
         ELSE IF model = "Finney_HEAD"
         THEN IF flame_depth = NoGrid
              THEN LibraryError(131)
              ELSE Value([i \in DOMAIN fire_intensity |->
                            DepthPowerLaw(model_params, fire_intensity[i],
                                          flame_depth[i])],
                         [line |-> 129])
         ELSE Value([i \in DOMAIN fire_intensity |->
                       PowerLaw(model_params, fire_intensity[i])],
                    [line |-> 133])

getFlameLength(model, fire_intensity, flame_depth, params_only) ==
    /\ ncalls < MaxCalls
    /\ call' = [fn |-> "getFlameLength", model |-> model,
                fire_intensity |-> fire_intensity,
                flame_depth |-> flame_depth, params_only |-> params_only]
    /\ ret' = FlameLength(model, fire_intensity, flame_depth, params_only)
    /\ ncalls' = ncalls + 1
    /\ UNCHANGED <<windspeed, canopy_cover, canopy_ht, canopy_baseht, orig,
                   inplace>>

(***************************************************************************)
(* getFlameHeight (lines 137-188).                                         *)
(***************************************************************************)
\* line 178
MsgHeightSlope == "Unable to calculate flame height - Slope tilt"
\* line 188
MsgHeightModel == "Unable to calculate flame height - Model choice is invalid"

\* the outcomes of a > b in a cell
Gt(a, b) == {CASE x = "pos" -> "T" [] x \in {"zero", "neg"} -> "F" [] OTHER -> "U"
             : x \in Signs(NSub(a, b))}

\* lines 160-164
NelsonA(fire_type) ==
    IF fire_type = 1 \/ fire_type = 2 THEN X(R(1, 360), 0)
    ELSE IF fire_type = 3 THEN X(R(175, 10000), 0)
    ELSE NInt(0)

\* line 167, third operand: a * fire_intensity / midflame_ws
NelsonRaw(a, fire_intensity, midflame_ws) ==
    NDiv(NMul(a, fire_intensity), midflame_ws)

\* line 167: Con(midflame_ws == 0, flame_length, a * fire_intensity / midflame_ws)
NelsonHeight(midflame_ws, flame_length, raw) ==
    ConCell({IF midflame_ws = NInt(0) THEN "T" ELSE "F"}, flame_length, raw)

\* the height returned without the comparison with flame_length
NelsonNoClamp(height, flame_length) == height

\* line 170: Con(height > flame_length, flame_length, height)
NelsonClamp(height, flame_length) ==
    ConCell(Gt(height, flame_length), flame_length, height)

\* every given unit tag taken as known
SlopeUnitsKnownLax(slope_units) == slope_units # None

\* lines 173-177 and 230-234: the unit tags that do not reach the else branch
SlopeUnitsKnown(slope_units) == slope_units = "percent" \/ slope_units = "degrees"

\* lines 173-176 and 230-233: slope_rad, for a known unit tag
SlopeRad(slope_angle, slope_units) ==
    IF slope_units = "percent"
    THEN [i \in DOMAIN slope_angle |-> ATan(NDiv(slope_angle[i], NInt(100)))]
    ELSE [i \in DOMAIN slope_angle |-> getRadians(slope_angle[i])]

\* lines 181-186 in one cell
FinneyHeight(flame_length, flame_tilt, slope_angle, slope_rad) ==
    LET tilt_h == NSub(NDiv(PI, NInt(2)), getRadians(flame_tilt))
    IN  ConCell(Le1(slope_angle),
                NMul(flame_length, Sin(tilt_h)),
                NDiv(NMul(flame_length, Sin(NSub(tilt_h, slope_rad))),
                     Sin(NSub(getRadians(NInt(90)), slope_rad))))

\* lines 159-188
FlameHeight(model, flame_length, fire_type, fire_intensity, midflame_ws, flame_tilt, slope_angle, slope_units) ==
    IF model = "Nelson"
    THEN LET D      == DOMAIN flame_length
             a      == [i \in D |-> NelsonA(fire_type[i])]
             raw    == [i \in D |-> NelsonRaw(a[i], fire_intensity[i],
                                              midflame_ws[i])]
             height == [i \in D |-> NelsonHeight(midflame_ws[i],
                                                 flame_length[i], raw[i])]
         IN  Value([i \in D |-> NelsonClamp(height[i], flame_length[i])],
                   [a |-> a, raw |-> raw, height |-> height])
    ELSE IF model = "Finney"
    THEN LET slope_rad == SlopeRad(slope_angle, slope_units) IN
         IF ~SlopeUnitsKnown(slope_units) THEN Raise(MsgHeightSlope)
         ELSE Value([i \in DOMAIN flame_length |->
                       FinneyHeight(flame_length[i], flame_tilt[i],
                                    slope_angle[i], slope_rad[i])],
                    [slope_rad |-> slope_rad])
    ELSE Raise(MsgHeightModel)

getFlameHeight(a) ==
    /\ ncalls < MaxCalls
    /\ call' = [fn |-> "getFlameHeight", args |-> a]
    /\ ret' = FlameHeight(a.model, a.flame_length, a.fire_type, a.fire_intensity,
                          a.midflame_ws, a.flame_tilt, a.slope_angle,
                          a.slope_units)
    /\ ncalls' = ncalls + 1
    /\ UNCHANGED <<windspeed, canopy_cover, canopy_ht, canopy_baseht, orig,
                   inplace>>

(***************************************************************************)
(* getFlameTilt (lines 192-272).                                           *)
(***************************************************************************)
\* line 235
MsgTiltSlope == "Unable to calculate flame tilt - Invalid slope units provided"
\* lines 250-251
MsgTiltButler == "Unable to calculate \"Butler\" flame tilt - Did not pass at least one of the required input parameters"
\* line 269
MsgTiltModel == "Unable to calculate flame tilt - Model choice is invalid"

\* line 227: ACos(flame_height/flame_length)
StandardTilt(flame_height, flame_length) == ACos(NDiv(flame_height, flame_length))

\* lines 242-244 in one cell
FinneyTilt(flame_height, flame_length, slope_rad) ==
    LET tilt_h == NAdd(ASin(getRadians(
                           NDiv(NMul(flame_height,
                                     getDegrees(Sin(NSub(getRadians(NInt(90)),
                                                         slope_rad)))),
                                flame_length))),
                       slope_rad)
    IN  NSub(NDiv(PI, NInt(2)), tilt_h)

\* lines 254-257
ButlerWindspeed(windspeed_, windspeed_units) ==
    IF windspeed_units = "kph" THEN NDiv(windspeed_, X(R(36, 10), 0))
    ELSE IF windspeed_units = "mph" THEN NDiv(windspeed_, X(R(223694, 100000), 0))
    ELSE windspeed_

\* all(...) in place of any(...)
ButlerMissingAll(windspeed_, windspeed_units, canopy_ht_) ==
    windspeed_ = NoGrid /\ windspeed_units = None /\ canopy_ht_ = NoGrid

\* line 249: any(elem is None for elem in [windspeed, windspeed_units, canopy_ht])
ButlerMissing(windspeed_, windspeed_units, canopy_ht_) ==
    windspeed_ = NoGrid \/ windspeed_units = None \/ canopy_ht_ = NoGrid

\* lines 260-267 in one cell
ButlerTilt(windspeed_, canopy_ht_) ==
    LET uc == NDiv(windspeed_,
                   NMul(X(R(36, 10), 0),
                        NAdd(NInt(1),
                             Ln(NAdd(NInt(1), NDiv(NInt(28), canopy_ht_))))))
        g  == X(R(981, 100), 0)
    IN  ATan(SquareRoot(NDiv(NMul(NInt(3), NMul(uc, NMul(uc, uc))),
                             NMul(NMul(NInt(2), g), NInt(10)))))

\* the tilt returned without the comparison with 0
ClampTiltNone(tilt_v) == getDegrees(tilt_v)

\* line 272: Con(tilt_v >= 0, getDegrees(tilt_v), 0)
\* (the condition and the first operand are the same cell: a tilt_v known only
\* by its outcomes is clamped outcome by outcome)
ClampTilt(tilt_v) ==
    LET Clamp(v) == ConCell(Ge0(v), getDegrees(v), NInt(0))
    IN  IF tilt_v.t = "x" \/ Cardinality(tilt_v.s) = 1 THEN Clamp(tilt_v)
        ELSE S(UNION {Signs(Clamp(S({x}))) : x \in tilt_v.s})

\* line 238: the truth value of flame_height == flame_length.  Between two
\* scalars it is their equality; between grids it is the truth value of a
\* grid object, which the grid library either refuses ("raise") or leaves to
\* Python's default for objects ("object": true)
HeightEqualsLength(flame_height, flame_length, scalar, truth) ==
    IF scalar
    THEN IF flame_height[1] = flame_length[1] THEN "True" ELSE "False"
    ELSE IF truth = "raise" THEN "raise"
    ELSE "True"

\* lines 226-272
FlameTilt(model, flame_length, flame_height, slope_angle, slope_units, windspeed_, windspeed_units, canopy_ht_, scalar, truth) ==
    LET D == DOMAIN flame_length
        Return(tilt_v) == Value([i \in DOMAIN tilt_v |-> ClampTilt(tilt_v[i])],
                                [tilt_v |-> tilt_v])
    IN
    IF model = "Standard"
    THEN Return([i \in D |-> StandardTilt(flame_height[i], flame_length[i])])
    ELSE IF model = "Finney"
    THEN LET slope_rad == SlopeRad(slope_angle, slope_units)
             eq == HeightEqualsLength(flame_height, flame_length, scalar, truth)
         IN  IF ~SlopeUnitsKnown(slope_units) THEN Raise(MsgTiltSlope)
             ELSE IF eq = "raise" THEN LibraryError(238)
             ELSE IF eq = "True" THEN Return(<<NInt(0)>>)
             ELSE Return([i \in D |-> FinneyTilt(flame_height[i],
                                                 flame_length[i], slope_rad[i])])
    ELSE IF model = "Butler"
    THEN IF ButlerMissing(windspeed_, windspeed_units, canopy_ht_)
         THEN Raise(MsgTiltButler)
         ELSE Return([i \in DOMAIN windspeed_ |->
                        ButlerTilt(ButlerWindspeed(windspeed_[i], windspeed_units),
                                   canopy_ht_[i])])
    ELSE Raise(MsgTiltModel)

getFlameTilt(a) ==
    /\ ncalls < MaxCalls
    /\ call' = [fn |-> "getFlameTilt", args |-> a]
    /\ ret' = FlameTilt(a.model, a.flame_length, a.flame_height, a.slope_angle,
                        a.slope_units, a.windspeed, a.windspeed_units,
                        a.canopy_ht, a.scalar, a.truth)
    /\ ncalls' = ncalls + 1
    /\ UNCHANGED <<windspeed, canopy_cover, canopy_ht, canopy_baseht, orig,
                   inplace>>

(***************************************************************************)
(* getFlameResidenceTime (lines 276-293) and getFlameDepth (lines 297-306). *)
(***************************************************************************)
\* lines 288-289 in one cell:
\* (0.39 * Power(fuel_consumption, 0.25) * Power(midflame_ws, 1.51)) / (ros / 60)
ResTimeExpr(ros, fuel_consumption, midflame_ws) ==
    IF RIsZero(ros) THEN Undef
    ELSE [coef |-> R(39, 100), fuel |-> fuel_consumption, ws |-> midflame_ws,
          per |-> RDiv(ros, RInt(60)), over |-> RInt(1)]

\* lines 290-293
FlameResidenceTime(ros, fuel_consumption, midflame_ws, units) ==
    LET res_time == [i \in DOMAIN ros |->
                       ResTimeExpr(ros[i], fuel_consumption[i], midflame_ws[i])]
    IN  IF units = "min"
        THEN Value([i \in DOMAIN ros |->
                      IF RIsZero(ros[i]) THEN Undef
                      ELSE [res_time[i] EXCEPT !.over = RInt(60)]],
                   [line |-> 291])
        ELSE Value(res_time, [line |-> 293])

getFlameResidenceTime(ros, fuel_consumption, midflame_ws, units) ==
    /\ ncalls < MaxCalls
    /\ call' = [fn |-> "getFlameResidenceTime", ros |-> ros,
                fuel_consumption |-> fuel_consumption,
                midflame_ws |-> midflame_ws, units |-> units]
    /\ ret' = FlameResidenceTime(ros, fuel_consumption, midflame_ws, units)
    /\ ncalls' = ncalls + 1
    /\ UNCHANGED <<windspeed, canopy_cover, canopy_ht, canopy_baseht, orig,
                   inplace>>

\* line 306
FlameDepth(ros, res_time) ==
    Value([i \in DOMAIN ros |-> RMul(ros[i], res_time[i])], [line |-> 306])

getFlameDepth(ros, res_time) ==
    /\ ncalls < MaxCalls
    /\ call' = [fn |-> "getFlameDepth", ros |-> ros, res_time |-> res_time]
    /\ ret' = FlameDepth(ros, res_time)
    /\ ncalls' = ncalls + 1
    /\ UNCHANGED <<windspeed, canopy_cover, canopy_ht, canopy_baseht, orig,
                   inplace>>

WsValues == <<Ws(RInt(10)), Ws(RInt(0)), Ws(RInt(36))>>
CoverValues == <<RInt(50), RInt(3000), RInt(50)>>
HtValues == <<Ht(RInt(0)), Ht(RInt(10)), Ht(RInt(20))>>
BaseHtValues == <<Ht(RInt(0)), Ht(RInt(0)), Ht(RInt(5))>>

Init ==
    /\ windspeed = Grid(0, WsValues)
    /\ canopy_cover = Grid(0, CoverValues)
    /\ canopy_ht = Grid(0, HtValues)
    /\ canopy_baseht = Grid(0, BaseHtValues)
    /\ orig = [windspeed |-> windspeed, canopy_cover |-> canopy_cover,
               canopy_ht |-> canopy_ht, canopy_baseht |-> canopy_baseht]
    /\ inplace \in BOOLEAN
    /\ call = [fn |-> None]
    /\ ret = [kind |-> None]
    /\ ncalls = 0

LengthModels == DOMAIN model_dict \cup {"Byram", "finney_head", "Nelson"}
IntensityValues == <<RInt(100), RInt(3600), RInt(0)>>
DepthValues == <<RInt(2), RInt(1), RInt(0)>>


\* the calls of getFlameLength: every name with params_only set, and the
\* computation for a few names
LengthCalls ==
    {[model |-> m, fire_intensity |-> Grid(0, IntensityValues),
      flame_depth |-> NoGrid, params_only |-> TRUE] : m \in LengthModels}
    \cup
    {[model |-> m, fire_intensity |-> fi, flame_depth |-> fd,
      params_only |-> FALSE] :
        m \in {"Byram_HEAD", "Butler_HEAD", "Finney_HEAD", "Byram", "Nelson"},
        fi \in {Grid(0, IntensityValues), Grid(1, IntensityValues)},
        fd \in {NoGrid, Grid(0, DepthValues), Grid(1, DepthValues)}}

NGrid(o, vals) == Grid(o, [k \in DOMAIN vals |-> NInt(vals[k])])
NGrids(vals) == {NGrid(o, vals) : o \in 0..(Len(vals) - 1)}
NScalars(vals) == {<<NInt(vals[k])>> : k \in DOMAIN vals}

SlopeUnits == {"degrees", "percent", "radians", None}

\* the arguments a call of getFlameHeight does not vary
HeightArgs ==
    [model |-> "Nelson", flame_length |-> NGrid(0, <<2, 20>>),
     fire_type |-> Grid(0, <<1, 3, 4>>),
     fire_intensity |-> NGrid(0, <<3600, 360>>),
     midflame_ws |-> NGrid(0, <<0, 1, 4, -1>>),
     flame_tilt |-> NGrid(0, <<30, 60>>), slope_angle |-> NGrid(0, <<60, 0>>),
     slope_units |-> None]

HeightCalls ==
    {[HeightArgs EXCEPT !.flame_length = fl, !.fire_type = ft,
                        !.midflame_ws = mw, !.slope_units = su] :
        fl \in NGrids(<<2, 20>>), ft \in Grids(<<1, 3, 4>>),
        mw \in NGrids(<<0, 1, 4, -1>>), su \in {None, "radians"}}
    \cup
    {[HeightArgs EXCEPT !.model = m, !.slope_units = su] :
        m \in {"Simard", "nelson"}, su \in {None, "degrees"}}
    \cup
    {[HeightArgs EXCEPT !.model = "Finney", !.flame_tilt = t,
                        !.slope_angle = sa, !.slope_units = su] :
        t \in NGrids(<<0, 30, 60>>), sa \in NGrids(<<0, 60, 1>>),
        su \in SlopeUnits}

\* the arguments a call of getFlameTilt does not vary
TiltArgs ==
    [model |-> "Standard", flame_length |-> NGrid(0, <<1, 2>>),
     flame_height |-> NGrid(0, <<1, 2>>), slope_angle |-> NGrid(0, <<60, 0>>),
     slope_units |-> None, windspeed |-> NoGrid, windspeed_units |-> None,
     canopy_ht |-> NoGrid, scalar |-> FALSE, truth |-> "raise"]

TiltCalls ==
    {[TiltArgs EXCEPT !.scalar = TRUE, !.flame_length = fl, !.flame_height = fh,
                      !.slope_angle = <<NInt(60)>>, !.slope_units = su] :
        fl \in NScalars(<<1, 2>>), fh \in NScalars(<<2, 1, 0, -1>>),
        su \in {None, "radians"}}
    \cup
    {[TiltArgs EXCEPT !.flame_height = fh, !.slope_units = su] :
        fh \in NGrids(<<1, 2, 0, -1>>), su \in {None, "radians"}}
    \cup
    {[TiltArgs EXCEPT !.model = "Finney", !.scalar = TRUE, !.flame_length = fl,
                      !.flame_height = fh, !.slope_angle = sa,
                      !.slope_units = su] :
        fl \in NScalars(<<1, 2>>), fh \in NScalars(<<2, 1, 0, -1>>),
        sa \in NScalars(<<0, 60>>), su \in SlopeUnits}
    \cup
    {[TiltArgs EXCEPT !.model = "Finney", !.flame_height = fh,
                      !.slope_units = su, !.truth = tr] :
        fh \in {NGrid(0, <<1, 2>>), NGrid(1, <<1, 2>>)},
        su \in {"degrees", None}, tr \in {"raise", "object"}}
    \cup
    {[TiltArgs EXCEPT !.model = "Butler", !.slope_units = su, !.windspeed = ws,
                      !.windspeed_units = wu, !.canopy_ht = ch] :
        su \in {"radians", None},
        ws \in {NoGrid, NGrid(0, <<36, 0, -36>>), NGrid(1, <<36, 0, -36>>)},
        wu \in {None, "kph", "mps", "mph"},
        ch \in {NoGrid, NGrid(0, <<10, 0, -28>>), NGrid(2, <<10, 0, -28>>)}}
    \cup
    {[TiltArgs EXCEPT !.model = m, !.slope_units = su, !.windspeed_units = wu] :
        m \in {"Simard", "butler"}, su \in {None, "degrees"},
        wu \in {None, "kph"}}

RosValues == <<RInt(10), RInt(0)>>
FuelValues == <<RInt(1), RInt(2)>>
MidflameValues == <<RInt(1), R(3, 2)>>
ResTimeValues == <<R(1, 2), RInt(3)>>

Next ==
    \/ \E units \in {"SI", "IMP", "other"} : getMidFlameWS(units)
    \/ \E a \in LengthCalls :
          getFlameLength(a.model, a.fire_intensity, a.flame_depth, a.params_only)
    \/ \E a \in HeightCalls : getFlameHeight(a)
    \/ \E a \in TiltCalls : getFlameTilt(a)
    \/ \E ros \in Grids(RosValues), units \in {"sec", "min", "hours"} :
          getFlameResidenceTime(ros, Grid(0, FuelValues),
                                Grid(0, MidflameValues), units)
    \/ \E ros \in Grids(RosValues), rt \in Grids(ResTimeValues) :
          getFlameDepth(ros, rt)

Spec == Init /\ [][Next]_vars

(***************************************************************************)
(* The error kinds, by the raise statement that produces them.             *)
(***************************************************************************)
InvalidModelMsgs == {MsgLengthModel, MsgHeightModel, MsgTiltModel}
InvalidUnitMsgs == {MsgHeightSlope, MsgTiltSlope}
ModuleRaise(r) == r.kind = "raise" /\ r.exc = "Exception"
InvalidModelError(r) == ModuleRaise(r) /\ r.msg \in InvalidModelMsgs
InvalidUnitError(r) == ModuleRaise(r) /\ r.msg \in InvalidUnitMsgs
MissingParameterError(r) ==
    ModuleRaise(r) /\ r.msg \notin (InvalidModelMsgs \cup InvalidUnitMsgs)

IsLength == call.fn = "getFlameLength"
IsHeight == call.fn = "getFlameHeight"
IsTilt == call.fn = "getFlameTilt"
IsMidFlame == call.fn = "getMidFlameWS"

\* C1: a call of getFlameLength, getFlameHeight or getFlameTilt whose model is
\* not one of the function's recognized names ends in the function's
\* invalid-model exception and returns no value, whatever the other
\* arguments are.
C1_InvalidModel ==
    /\ IsLength /\ call.model \notin DOMAIN model_dict
          => ret = Raise(MsgLengthModel)
    /\ IsHeight /\ call.args.model \notin {"Nelson", "Finney"}
          => ret = Raise(MsgHeightModel)
    /\ IsTilt /\ call.args.model \notin {"Standard", "Finney", "Butler"}
          => ret = Raise(MsgTiltModel)

C1_Witness ==
    /\ IsLength /\ call.model = "Byram" /\ call.params_only
    /\ InvalidModelError(ret)

\* C2: getFlameTilt with model "Butler" raises the missing-parameter exception
\* whenever at least one of windspeed, windspeed_units, canopy_ht is None,
\* and then computes no tilt.
C2_ButlerMissing ==
    IsTilt /\ call.args.model = "Butler"
    /\ (\/ call.args.windspeed = NoGrid
        \/ call.args.windspeed_units = None
        \/ call.args.canopy_ht = NoGrid)
        => ret = Raise(MsgTiltButler) /\ MissingParameterError(ret)

C2_Witness ==
    /\ IsTilt /\ call.args.model = "Butler"
    /\ call.args.windspeed # NoGrid /\ call.args.canopy_ht # NoGrid
    /\ call.args.windspeed_units = None
    /\ ret = Raise(MsgTiltButler)

\* C3: getFlameLength with model "Finney_HEAD", params_only false and
\* flame_depth None fails with a missing-parameter exception and never
\* reaches the computation of line 129-131.
C3_DepthRequired ==
    IsLength /\ call.model = "Finney_HEAD" /\ ~call.params_only
    /\ call.flame_depth = NoGrid
        => MissingParameterError(ret)

C6_NelsonClamp ==
    IsHeight /\ call.args.model = "Nelson" =>
        /\ ret.kind = "value"
        /\ \A i \in DOMAIN ret.val :
              LET fl  == call.args.flame_length[i]
                  mw  == call.args.midflame_ws[i]
                  ft  == call.args.fire_type[i]
                  a   == IF ft \in {1, 2} THEN R(1, 360)
                         ELSE IF ft = 3 THEN R(175, 10000) ELSE RInt(0)
                  h   == ret.val[i]
              IN  /\ h.t = "x" /\ h.p = 0
                  /\ RLe(h.q, fl.q)
                  /\ IF RIsZero(mw.q) THEN h = fl
                     ELSE LET raw == RDiv(RMul(a, call.args.fire_intensity[i].q),
                                          mw.q)
                          IN  IF RLt(fl.q, raw) THEN h = fl ELSE h.q = raw

C6_Witness ==
    /\ IsHeight /\ call.args.model = "Nelson" /\ ret.kind = "value"
    /\ \E i \in DOMAIN ret.val :
          /\ ~RIsZero(call.args.midflame_ws[i].q)
          /\ Gt(ret.aux.raw[i], call.args.flame_length[i]) = {"T"}
          /\ ret.val[i] = call.args.flame_length[i]
    /\ \E i \in DOMAIN ret.val :
          /\ RIsZero(call.args.midflame_ws[i].q)
          /\ ret.val[i] = call.args.flame_length[i]

\* C7: for every sub-model of getFlameTilt and every call that returns, no
\* cell of the returned tilt is negative: a cell whose tilt_v is negative
\* holds 0, a cell whose tilt_v is >= 0 holds degrees(tilt_v), and the
\* Finney case flame_height == flame_length returns 0.
C7_TiltClamp ==
    IsTilt /\ ret.kind = "value" =>
        /\ \A i \in DOMAIN ret.val :
              LET tv == ret.aux.tilt_v[i]
              IN  /\ "neg" \notin Signs(ret.val[i])
                  /\ Signs(tv) = {"neg"} => ret.val[i] = NInt(0)
                  /\ Signs(tv) \subseteq {"zero", "pos"}
                        => ret.val[i] = NDiv(NMul(tv, NInt(180)), PI)
        /\ call.args.model = "Finney" /\ call.args.scalar
           /\ call.args.flame_height = call.args.flame_length
              => ret.val = <<NInt(0)>>

C7_Witness ==
    /\ IsTilt /\ ret.kind = "value" /\ call.args.model = "Finney"
    /\ \E i \in DOMAIN ret.val :
          /\ Signs(ret.aux.tilt_v[i]) = {"neg"}
          /\ ret.val[i] = NInt(0)

\* the part of C8 that does not depend on the number of names: every entry
\* of the registry is a pair except "Finney_HEAD", a triple; getFlameLength
\* accepts exactly the registry's names and, with params_only, returns the
\* entry unchanged.
RegistryShapeAndLookup ==
    /\ \A m \in DOMAIN model_dict :
          Len(model_dict[m]) = (IF m = "Finney_HEAD" THEN 3 ELSE 2)
    /\ "Finney_HEAD" \in DOMAIN model_dict
    /\ IsLength =>
          /\ InvalidModelError(ret) <=> call.model \notin DOMAIN model_dict
          /\ call.params_only /\ call.model \in DOMAIN model_dict
                => ret.kind = "value" /\ ret.val = model_dict[call.model]

\* C8 as stated: the registry holds exactly 27 names, all pairs except the
\* triple "Finney_HEAD"; getFlameLength accepts exactly these names.
C8_Registry27 ==
    /\ Cardinality(DOMAIN model_dict) = 27
    /\ RegistryShapeAndLookup

\* C8 amended: the registry holds exactly 29 names, all pairs except the
\* triple "Finney_HEAD"; getFlameLength accepts exactly these names and
\* returns the entry unchanged when params_only is set.
C8_Registry29 ==
    /\ Cardinality(DOMAIN model_dict) = 29
    /\ RegistryShapeAndLookup

C8_Witness ==
    /\ IsLength /\ call.model = "Finney_HEAD" /\ call.params_only
    /\ ret.kind = "value" /\ Len(ret.val) = 3

\* the part of C9 about the value of a cell whose canopy height is 0: the
\* crown ratio and f are 0, line 62 is selected, and the result is
\* windspeed*1.83/ln((20+0.36*H)/(0.13*H)) with H = 0.5*3.28084 and the
\* windspeed converted by the unit tag.
ZeroHeightCell(i) ==
    LET c == ConvertUnits(call.units, call.windspeed, call.canopy_ht,
                          call.canopy_baseht)
    IN  /\ ret.aux.crown_ratio[i] = RInt(0)
        /\ ret.aux.f[i] = RInt(0)
        /\ ret.aux.line[i] = 62
        /\ ret.val[i] = [coef |-> R(183, 100), ws |-> c.ws[i],
                         lnof |-> [q |-> R(1, 2), ft |-> 1], sqrtof |-> None]

ZeroHeightCells == {i \in Cells : RIsZero(call.canopy_ht[i].q)}

\* C9 as stated: in a cell whose canopy height is 0 the result is the line-62
\* expression at H = 0.5*3.28084 and no division by zero occurs in the cell.
C9_NoZeroDivision ==
    IsMidFlame =>
        \A i \in ZeroHeightCells : ZeroHeightCell(i) /\ ret.aux.zerodiv[i] = {}

\* C9 amended: in a cell whose canopy height is 0 the result is the line-62
\* expression at H = 0.5*3.28084 and the selected expression divides by no
\* zero; the operands Con discards in that cell, (canopy_ht -
\* canopy_baseht)/canopy_ht of line 55 and the f > 5 expression of line 63,
\* do divide by zero.
C9_SelectedNoZeroDivision ==
    IsMidFlame =>
        \A i \in ZeroHeightCells :
            ZeroHeightCell(i) /\ ret.aux.zerodiv[i] = {55, 63}

C9_Witness ==
    /\ IsMidFlame /\ call.units = "SI"
    /\ \E i \in ZeroHeightCells :
          ZeroHeightCell(i) /\ ~RIsZero(call.windspeed[i].q)

\* C10: getFlameHeight "Finney" and getFlameTilt "Finney" raise the
\* slope-unit exception exactly when slope_units is neither "degrees" nor
\* "percent" (None included), and compute nothing then; "Nelson", "Standard"
\* and "Butler" return the same whatever slope_units is.
C10_SlopeUnits ==
    /\ IsHeight /\ call.args.model = "Finney" =>
          IF call.args.slope_units \in {"degrees", "percent"}
          THEN ret.kind = "value"
          ELSE ret = Raise(MsgHeightSlope) /\ InvalidUnitError(ret)
    /\ IsTilt /\ call.args.model = "Finney" =>
          IF call.args.slope_units \in {"degrees", "percent"}
          THEN ~InvalidUnitError(ret)
          ELSE ret = Raise(MsgTiltSlope) /\ InvalidUnitError(ret)
    /\ IsHeight /\ call.args.model = "Nelson" =>
          /\ ~InvalidUnitError(ret)
          /\ \A su \in SlopeUnits :
                LET a == [call.args EXCEPT !.slope_units = su]
                IN  ret = FlameHeight(a.model, a.flame_length, a.fire_type,
                                      a.fire_intensity, a.midflame_ws,
                                      a.flame_tilt, a.slope_angle, a.slope_units)
    /\ IsTilt /\ call.args.model \in {"Standard", "Butler"} =>
          /\ ~InvalidUnitError(ret)
          /\ \A su \in SlopeUnits :
                LET a == [call.args EXCEPT !.slope_units = su]
                IN  ret = FlameTilt(a.model, a.flame_length, a.flame_height,
                                    a.slope_angle, a.slope_units, a.windspeed,
                                    a.windspeed_units, a.canopy_ht, a.scalar,
                                    a.truth)

C10_Witness ==
    /\ IsTilt /\ call.args.model = "Finney" /\ call.args.slope_units = None
    /\ ret = Raise(MsgTiltSlope)

====
